---- MODULE Spec2Model ----
(***************************************************************************)
(* Model of the text humanization pipeline of pages/humanize_text.py:      *)
(* citation protection (extract_citations / restore_citations),            *)
(* contraction expansion, synonym substitution, transition insertion, the  *)
(* line-preserving rewrite and the whitespace/punctuation cleanup.         *)
(*                                                                         *)
(* A Python str is modelled as a sequence of one-character strings, so     *)
(* that every regular expression and every str method of the source is     *)
(* computed character by character.                                        *)
(***************************************************************************)
EXTENDS Integers, Sequences, FiniteSets, TLC

(***************************************************************************)
(* Characters and character classes (str.isupper, str.lower, \s, \d)       *)
(***************************************************************************)
NL == "\n"
TAB == "\t"
\* the backquote character (written by name: the character itself cannot stand in a string literal)
BT == "backquote"
UpperChars == <<"A", "B", "C", "D", "E", "F", "G", "H", "I", "J", "K", "L", "M", "N", "O", "P", "Q", "R", "S", "T", "U", "V", "W", "X", "Y", "Z">>
LowerChars == <<"a", "b", "c", "d", "e", "f", "g", "h", "i", "j", "k", "l", "m", "n", "o", "p", "q", "r", "s", "t", "u", "v", "w", "x", "y", "z">>
UpperSet == {UpperChars[i] : i \in DOMAIN UpperChars}
LowerSet == {LowerChars[i] : i \in DOMAIN LowerChars}
LetterSet == UpperSet \cup LowerSet
DigitSet == {"0", "1", "2", "3", "4", "5", "6", "7", "8", "9"}
DigitChars == <<"0", "1", "2", "3", "4", "5", "6", "7", "8", "9">>
\* \s of the re module, as far as the modelled alphabet goes
SpaceSet == {" ", NL, TAB}
\* [ \t] of the cleanup expressions
BlankSet == {" ", TAB}

ToLowerMap == [c \in UpperSet |-> LowerChars[CHOOSE i \in DOMAIN UpperChars : UpperChars[i] = c]]
ToUpperMap == [c \in LowerSet |-> UpperChars[CHOOSE i \in DOMAIN LowerChars : LowerChars[i] = c]]
LowerChar(c) == IF c \in UpperSet THEN ToLowerMap[c] ELSE c
UpperChar(c) == IF c \in LowerSet THEN ToUpperMap[c] ELSE c
IsUpper(c) == c \in UpperSet

\* str.lower()
Lower(s) == [i \in DOMAIN s |-> LowerChar(s[i])]
\* str.capitalize(): first character upper-cased, the rest lower-cased
Capitalize(s) == [i \in DOMAIN s |-> IF i = 1 THEN UpperChar(s[i]) ELSE LowerChar(s[i])]

(***************************************************************************)
(* str helpers                                                             *)
(***************************************************************************)
Max(S) == CHOOSE x \in S : \A y \in S : y <= x
Min(S) == CHOOSE x \in S : \A y \in S : x <= y

\* s[i:] starts with lit (i is a 1-based index)
StartsWithAt(s, i, lit) ==
    /\ i >= 1
    /\ i + Len(lit) - 1 <= Len(s)
    /\ \A k \in 1..Len(lit) : s[i + k - 1] = lit[k]

\* case-insensitive variant (re.IGNORECASE against a lower-case literal)
StartsWithAtCI(s, i, lit) ==
    /\ i >= 1
    /\ i + Len(lit) - 1 <= Len(s)
    /\ \A k \in 1..Len(lit) : LowerChar(s[i + k - 1]) = lit[k]

\* str.endswith
EndsWith(s, suf) == Len(suf) <= Len(s) /\ StartsWithAt(s, Len(s) - Len(suf) + 1, suf)

\* str.find(lit, from): least index >= from where lit occurs, 0 when none
FindFrom(s, lit, from) ==
    LET hits == {i \in from..(Len(s) - Len(lit) + 1) : StartsWithAt(s, i, lit)}
    IN IF hits = {} THEN 0 ELSE Min(hits)

\* lit in s
Contains(s, lit) == FindFrom(s, lit, 1) # 0

\* Defect variant of ReplaceFirst: str.replace(old, new) without the count,
\* which replaces every occurrence
RECURSIVE ReplaceAll(_, _, _)
ReplaceAll(s, old, new) ==
    LET i == FindFrom(s, old, 1)
    IN IF i = 0 \/ old = <<>> THEN s
       ELSE SubSeq(s, 1, i - 1) \o new \o ReplaceAll(SubSeq(s, i + Len(old), Len(s)), old, new)

\* str.replace(old, new, 1): the first occurrence only
ReplaceFirst(s, old, new) ==
    LET i == FindFrom(s, old, 1)
    IN IF i = 0 THEN s
       ELSE SubSeq(s, 1, i - 1) \o new \o SubSeq(s, i + Len(old), Len(s))

\* end (exclusive) of the maximal run of characters of cls starting at p
RECURSIVE RunEnd(_, _, _)
RunEnd(s, p, cls) ==
    IF p <= Len(s) /\ s[p] \in cls THEN RunEnd(s, p + 1, cls) ELSE p

\* Defect variant of IsBlank: the test without strip(), which only the
\* empty str passes
IsEmptyStr(s) == s = <<>>

\* str.strip() is empty
IsBlank(s) == \A i \in DOMAIN s : s[i] \in SpaceSet

\* " ".join / "\n".join
RECURSIVE Join(_, _)
Join(parts, sep) ==
    IF Len(parts) = 0 THEN <<>>
    ELSE IF Len(parts) = 1 THEN parts[1]
    ELSE parts[1] \o sep \o Join(Tail(parts), sep)

\* f"{i}" for an int i >= 0
RECURSIVE Decimal(_)
Decimal(i) ==
    IF i < 10 THEN <<DigitChars[i + 1]>>
    ELSE Decimal(i \div 10) \o <<DigitChars[(i % 10) + 1]>>

(***************************************************************************)
(* Regular-expression building blocks.  A position is the index of the     *)
(* next character to consume; a sub-expression maps a set of positions to  *)
(* the set of positions where it can end, which is every way a             *)
(* backtracking matcher can get through it.                                *)
(***************************************************************************)
ReLit(s, S, lit) == {p + Len(lit) : p \in {q \in S : StartsWithAt(s, q, lit)}}
ReStar(s, S, cls) == UNION {p..RunEnd(s, p, cls) : p \in S}
RePlus(s, S, cls) == UNION {(p + 1)..RunEnd(s, p, cls) : p \in S}
ReOne(s, S, cls) == {p + 1 : p \in {q \in S : q <= Len(s) /\ s[q] \in cls}}

\* ------------------------------------------------------------------------
\* CITATION_REGEX
\*   \(\s*[A-Za-z&\-,\.\s]+(?:et al\.\s*)?,\s*\d{4}
\*      (?:,\s*(?:pp?\.\s*\d+(?:-\d+)?))?\s*\)
\* ------------------------------------------------------------------------
AuthorSet == LetterSet \cup {"&", "-", ",", "."} \cup SpaceSet

CitationEnds(s, p) ==
    LET a0 == ReLit(s, {p}, <<"(">>)
        a1 == ReStar(s, a0, SpaceSet)
        a2 == RePlus(s, a1, AuthorSet)
        a3 == a2 \cup ReStar(s, ReLit(s, a2, <<"e", "t", " ", "a", "l", ".">>), SpaceSet)
        a4 == ReLit(s, a3, <<",">>)
        a5 == ReStar(s, a4, SpaceSet)
        a6 == ReOne(s, ReOne(s, ReOne(s, ReOne(s, a5, DigitSet), DigitSet), DigitSet), DigitSet)
        b1 == ReStar(s, ReLit(s, a6, <<",">>), SpaceSet)
        b2 == ReLit(s, b1, <<"p">>)
        b3 == b2 \cup ReLit(s, b2, <<"p">>)
        b4 == ReStar(s, ReLit(s, b3, <<".">>), SpaceSet)
        b5 == RePlus(s, b4, DigitSet)
        b6 == b5 \cup RePlus(s, ReLit(s, b5, <<"-">>), DigitSet)
        a7 == a6 \cup b6
        a8 == ReStar(s, a7, SpaceSet)
    IN ReLit(s, a8, <<")">>)

\* End (exclusive) of the match starting at p, 0 when there is none.  No
\* class of the expression holds ")", so every way through it ends at the
\* first ")" after p and the match is unique.
CitationMatchEnd(s, p) ==
    LET ends == CitationEnds(s, p)
    IN IF ends = {} THEN 0 ELSE Max(ends)

\* CITATION_REGEX.findall(text): the matched substrings (the expression has
\* no capturing group), non-overlapping, left to right
RECURSIVE FindAllFrom(_, _)
FindAllFrom(s, p) ==
    LET hits == {q \in p..Len(s) : CitationMatchEnd(s, q) # 0}
    IN IF hits = {} THEN <<>>
       ELSE <<SubSeq(s, Min(hits), CitationMatchEnd(s, Min(hits)) - 1)>>
            \o FindAllFrom(s, CitationMatchEnd(s, Min(hits)))

FindAllCitations(s) == FindAllFrom(s, 1)

(***************************************************************************)
(* extract_citations                                                       *)
(***************************************************************************)
\* f"[[REF_{i}]]"
Placeholder(i) == <<"[", "[", "R", "E", "F", "_">> \o Decimal(i) \o <<"]", "]">>

EmptyMap == [k \in {} |-> <<>>]

\* dict item assignment
MapPut(m, k, v) == [x \in (DOMAIN m) \cup {k} |-> IF x = k THEN v ELSE m[x]]

\* Defect variant of ExtractLoop: each replacement is made in the original
\* text in place of replaced_text, so only the last one is kept
RECURSIVE ExtractLoopFromText(_, _, _, _)
ExtractLoopFromText(text, refs, i, acc) ==
    IF i > Len(refs) THEN acc
    ELSE ExtractLoopFromText(text, refs, i + 1,
                             << ReplaceFirst(text, refs[i], Placeholder(i)),
                                MapPut(acc[2], Placeholder(i), refs[i]) >>)

\* the for loop from refs[i] on; acc is <<replaced_text, placeholder_map>>
RECURSIVE ExtractLoop(_, _, _, _)
ExtractLoop(text, refs, i, acc) ==
    IF i > Len(refs) THEN acc
    ELSE ExtractLoop(text, refs, i + 1,
                     << ReplaceFirst(acc[1], refs[i], Placeholder(i)),
                        MapPut(acc[2], Placeholder(i), refs[i]) >>)

\* returns <<replaced_text, placeholder_map>>
extract_citations(text) == ExtractLoop(text, FindAllCitations(text), 1, <<text, EmptyMap>>)

\* ------------------------------------------------------------------------
\* restore_citations, PLACEHOLDER_REGEX   \[\s*\[\s*REF_(\d+)\s*\]\s*\]
\* ------------------------------------------------------------------------
\* Defect variant of PlaceholderMatch: the expression without its \s*, which
\* matches the placeholder only as extract_citations wrote it
PlaceholderMatchStrict(s, p) ==
    LET d0 == p + 6
        d1 == RunEnd(s, d0, DigitSet)
    IN IF StartsWithAt(s, p, <<"[", "[", "R", "E", "F", "_">>)
          /\ d1 > d0 /\ StartsWithAt(s, d1, <<"]", "]">>)
       THEN <<d1 + 2, SubSeq(s, d0, d1 - 1)>>
       ELSE <<0, <<>>>>

\* <<end (exclusive), group(1)>> of the match starting at p, <<0, <<>>>> when
\* none.  Adjacent parts of the expression share no character, so the greedy
\* parse is the only one.
PlaceholderMatch(s, p) ==
    LET none == <<0, <<>>>>
    IN IF ~StartsWithAt(s, p, <<"[">>) THEN none
       ELSE LET q1 == RunEnd(s, p + 1, SpaceSet)
            IN IF ~StartsWithAt(s, q1, <<"[">>) THEN none
               ELSE LET q2 == RunEnd(s, q1 + 1, SpaceSet)
                    IN IF ~StartsWithAt(s, q2, <<"R", "E", "F", "_">>) THEN none
                       ELSE LET d0 == q2 + 4
                                d1 == RunEnd(s, d0, DigitSet)
                                q3 == RunEnd(s, d1, SpaceSet)
                            IN IF d1 = d0 \/ ~StartsWithAt(s, q3, <<"]">>) THEN none
                               ELSE LET q4 == RunEnd(s, q3 + 1, SpaceSet)
                                    IN IF ~StartsWithAt(s, q4, <<"]">>) THEN none
                                       ELSE <<q4 + 1, SubSeq(s, d0, d1 - 1)>>

\* Defect variant of replace_placeholder: placeholder_map.get(key, ""), which
\* drops a placeholder the map does not hold
replace_placeholder_or_empty(s, p, m, placeholder_map) ==
    LET key == <<"[", "[", "R", "E", "F", "_">> \o m[2] \o <<"]", "]">>
    IN IF key \in DOMAIN placeholder_map THEN placeholder_map[key] ELSE <<>>

\* replace_placeholder(match)
replace_placeholder(s, p, m, placeholder_map) ==
    LET key == <<"[", "[", "R", "E", "F", "_">> \o m[2] \o <<"]", "]">>
    IN IF key \in DOMAIN placeholder_map THEN placeholder_map[key]
       ELSE SubSeq(s, p, m[1] - 1)

\* PLACEHOLDER_REGEX.sub(replace_placeholder, text)
RECURSIVE RestoreFrom(_, _, _)
RestoreFrom(s, p, placeholder_map) ==
    LET hits == {q \in p..Len(s) : PlaceholderMatch(s, q)[1] # 0}
    IN IF hits = {} THEN SubSeq(s, p, Len(s))
       ELSE SubSeq(s, p, Min(hits) - 1)
            \o replace_placeholder(s, Min(hits), PlaceholderMatch(s, Min(hits)), placeholder_map)
            \o RestoreFrom(s, PlaceholderMatch(s, Min(hits))[1], placeholder_map)

restore_citations(text, placeholder_map) == RestoreFrom(text, 1, placeholder_map)

(***************************************************************************)
(* External collaborators: nltk.sent_tokenize and nltk.word_tokenize.      *)
(* Their code is not part of the repository; they are modelled by the      *)
(* rules of the Punkt and Treebank tokenizers that the characters of the   *)
(* modelled texts can trigger (letters, digits, blanks, . , ? ! ; & ' " `  *)
(* and brackets); the texts hold no abbreviation, ellipsis or dash.        *)
(***************************************************************************)
SentEndSet == {".", "?", "!"}
WordCharSet == LetterSet \cup DigitSet \cup {"_"}
OpenBracketSet == {"(", "[", "{", "<"}
BracketSet == {"(", ")", "[", "]", "{", "}", "<", ">"}
CloserSet == {"]", ")", "}", ">", "\"", "'"}

\* s without leading and trailing whitespace (str.strip)
Strip(s) ==
    LET a == RunEnd(s, 1, SpaceSet)
        keep == {i \in a..Len(s) : s[i] \notin SpaceSet}
    IN IF keep = {} THEN <<>> ELSE SubSeq(s, a, Max(keep))

\* Punkt: a sentence ends after a token that ends in . ? or ! when
\* whitespace and a further token follow
RECURSIVE SentFrom(_, _, _)
SentFrom(s, start, p) ==
    LET ends == {q \in p..(Len(s) - 1) : s[q] \in SentEndSet /\ s[q + 1] \in SpaceSet}
    IN IF ends = {} THEN (IF start > Len(s) THEN <<>> ELSE <<SubSeq(s, start, Len(s))>>)
       ELSE LET n == RunEnd(s, Min(ends) + 1, SpaceSet)
            IN IF n > Len(s) THEN <<SubSeq(s, start, Min(ends))>>
               ELSE <<SubSeq(s, start, Min(ends))>> \o SentFrom(s, n, n)

sent_tokenize(text) ==
    LET t == Strip(text) IN IF t = <<>> THEN <<>> ELSE SentFrom(t, 1, 1)

\* end (exclusive) of the maximal run of characters not in cls starting at p
RECURSIVE RunEndNot(_, _, _)
RunEndNot(s, p, cls) ==
    IF p <= Len(s) /\ s[p] \notin cls THEN RunEndNot(s, p + 1, cls) ELSE p

\* str.split(): the maximal runs of non-whitespace characters
RECURSIVE SplitWS(_, _)
SplitWS(s, p) ==
    LET a == RunEnd(s, p, SpaceSet)
    IN IF a > Len(s) THEN <<>>
       ELSE LET b == RunEndNot(s, a, SpaceSet)
            IN <<SubSeq(s, a, b - 1)>> \o SplitWS(s, b)

\* End (exclusive) of the match of a Treebank rule at p, 0 when none
TbMatch(rule, s, p) ==
    LET at(i) == IF i >= 1 /\ i <= Len(s) THEN s[i] ELSE "" IN
    CASE rule = "backticks" ->       \* [`]+
           IF at(p) = BT THEN RunEnd(s, p, {BT}) ELSE 0
      [] rule = "dquote_start" ->    \* ^"
           IF p = 1 /\ at(p) = "\"" THEN 2 ELSE 0
      [] rule = "quote_after" ->     \* ([ \(\[{<])("|'{2})
           IF at(p) \in ({" "} \cup OpenBracketSet)
           THEN (IF at(p + 1) = "\"" THEN p + 2
                 ELSE IF StartsWithAt(s, p + 1, <<"'", "'">>) THEN p + 3 ELSE 0)
           ELSE 0
      [] rule = "final_period" ->    \* ([^\.])(\.)([\]\)}>"\']*)\s*$
           IF p < Len(s) /\ at(p) # "." /\ at(p + 1) = "."
              /\ RunEnd(s, RunEnd(s, p + 2, CloserSet), SpaceSet) = Len(s) + 1
           THEN Len(s) + 1 ELSE 0
      [] rule = "comma_colon" ->     \* ([:,])([^\d])
           IF at(p) \in {":", ","} /\ p < Len(s) /\ at(p + 1) \notin DigitSet
           THEN p + 2 ELSE 0
      [] rule = "comma_colon_end" -> \* ([:,])$
           IF at(p) \in {":", ","} /\ p = Len(s) THEN p + 1 ELSE 0
      [] rule = "punct" ->           \* [;@#$%&] and [?!]
           IF at(p) \in {";", "&", "?", "!"} THEN p + 1 ELSE 0
      [] rule = "apostrophe" ->      \* ([^'])'<space>
           IF p + 2 <= Len(s) /\ at(p) # "'" /\ at(p + 1) = "'" /\ at(p + 2) = " "
           THEN p + 3 ELSE 0
      [] rule = "brackets" ->        \* [\]\[\(\)\{\}\<\>]
           IF at(p) \in BracketSet THEN p + 1 ELSE 0
      [] rule = "two_quotes" ->      \* ''
           IF StartsWithAt(s, p, <<"'", "'">>) THEN p + 2 ELSE 0
      [] rule = "dquote" ->          \* "
           IF at(p) = "\"" THEN p + 1 ELSE 0
      [] rule = "clitic1" ->         \* ([^' ])('[sS]|'[mM]|'[dD]|')<space>
           IF p + 2 <= Len(s) /\ at(p) \notin {"'", " "} /\ at(p + 1) = "'"
           THEN (IF at(p + 2) \in {"s", "S", "m", "M", "d", "D"} /\ at(p + 3) = " " THEN p + 4
                 ELSE IF at(p + 2) = " " THEN p + 3 ELSE 0)
           ELSE 0
      [] rule = "clitic2" ->         \* ([^' ])('ll|'LL|'re|'RE|'ve|'VE|n't|N'T)<space>
           IF p + 4 <= Len(s) /\ at(p) \notin {"'", " "} /\ at(p + 4) = " "
              /\ SubSeq(s, p + 1, p + 3) \in { <<"'", "l", "l">>, <<"'", "L", "L">>,
                                               <<"'", "r", "e">>, <<"'", "R", "E">>,
                                               <<"'", "v", "e">>, <<"'", "V", "E">>,
                                               <<"n", "'", "t">>, <<"N", "'", "T">> }
           THEN p + 5 ELSE 0
      [] rule = "cannot" ->          \* (?i)\b(can)(not)\b
           IF StartsWithAtCI(s, p, <<"c", "a", "n", "n", "o", "t">>)
              /\ at(p - 1) \notin WordCharSet /\ at(p + 6) \notin WordCharSet
           THEN p + 6 ELSE 0

\* The replacement of the match s[p..e-1] of a Treebank rule
TbRepl(rule, s, p, e) ==
    LET m == SubSeq(s, p, e - 1) IN
    CASE rule \in {"backticks", "punct", "brackets"} -> <<" ">> \o m \o <<" ">>
      [] rule = "dquote_start" -> <<BT, BT>>
      [] rule = "quote_after" -> <<s[p], " ", BT, BT, " ">>
      [] rule = "final_period" ->
           <<s[p], " ", ".", " ">> \o SubSeq(s, p + 2, RunEnd(s, p + 2, CloserSet) - 1) \o <<" ">>
      [] rule = "comma_colon" -> <<" ", s[p], " ", s[p + 1]>>
      [] rule = "comma_colon_end" -> <<" ", s[p], " ">>
      [] rule = "apostrophe" -> <<s[p], " ", "'", " ">>
      [] rule \in {"two_quotes", "dquote"} -> <<" ", "'", "'", " ">>
      [] rule \in {"clitic1", "clitic2"} -> <<s[p], " ">> \o SubSeq(s, p + 1, e - 1)
      [] rule = "cannot" -> <<" ">> \o SubSeq(s, p, p + 2) \o <<" ">> \o SubSeq(s, p + 3, p + 5) \o <<" ">>

\* re.sub of one rule over s, from p on: the text up to the leftmost match,
\* its replacement, and the same from the end of the match on
RECURSIVE TbSub(_, _, _)
TbSub(rule, s, p) ==
    LET hits == {q \in p..Len(s) : TbMatch(rule, s, q) # 0}
    IN IF hits = {} THEN SubSeq(s, p, Len(s))
       ELSE SubSeq(s, p, Min(hits) - 1)
            \o TbRepl(rule, s, Min(hits), TbMatch(rule, s, Min(hits)))
            \o TbSub(rule, s, TbMatch(rule, s, Min(hits)))

TbRulesBefore == <<"backticks", "dquote_start", "quote_after", "final_period",
                   "comma_colon", "comma_colon_end", "punct", "apostrophe", "brackets">>
TbRulesAfter == <<"two_quotes", "dquote", "clitic1", "clitic2", "cannot">>

\* the re.sub calls of the rules, in order; an empty string has nothing to
\* substitute in
RECURSIVE TbApply(_, _, _)
TbApply(rules, i, s) ==
    IF i > Len(rules) \/ s = <<>> THEN s ELSE TbApply(rules, i + 1, TbSub(rules[i], s, 1))

\* The Treebank word tokenizer on one sentence
TreebankTokens(sent) ==
    SplitWS(TbApply(TbRulesAfter, 1, <<" ">> \o TbApply(TbRulesBefore, 1, sent) \o <<" ">>), 1)

RECURSIVE TokensOfSents(_)
TokensOfSents(sents) ==
    IF sents = <<>> THEN <<>> ELSE TreebankTokens(Head(sents)) \o TokensOfSents(Tail(sents))

\* word_tokenize(text): the Treebank tokens of each Punkt sentence
word_tokenize(text) == TokensOfSents(sent_tokenize(text))

(***************************************************************************)
(* The fixed tables, as ordered lists of <<key, value>> in dict order      *)
(***************************************************************************)
WHOLE_CONTRACTIONS ==
  << << <<"c", "a", "n", "'", "t">>,
        <<"c", "a", "n", "n", "o", "t">> >>,
     << <<"w", "o", "n", "'", "t">>,
        <<"w", "i", "l", "l", " ", "n", "o", "t">> >>,
     << <<"s", "h", "a", "n", "'", "t">>,
        <<"s", "h", "a", "l", "l", " ", "n", "o", "t">> >>,
     << <<"a", "i", "n", "'", "t">>,
        <<"i", "s", " ", "n", "o", "t">> >>,
     << <<"i", "'", "m">>,
        <<"i", " ", "a", "m">> >>,
     << <<"i", "t", "'", "s">>,
        <<"i", "t", " ", "i", "s">> >>,
     << <<"w", "e", "'", "r", "e">>,
        <<"w", "e", " ", "a", "r", "e">> >>,
     << <<"t", "h", "e", "y", "'", "r", "e">>,
        <<"t", "h", "e", "y", " ", "a", "r", "e">> >>,
     << <<"y", "o", "u", "'", "r", "e">>,
        <<"y", "o", "u", " ", "a", "r", "e">> >>,
     << <<"h", "e", "'", "s">>,
        <<"h", "e", " ", "i", "s">> >>,
     << <<"s", "h", "e", "'", "s">>,
        <<"s", "h", "e", " ", "i", "s">> >>,
     << <<"t", "h", "a", "t", "'", "s">>,
        <<"t", "h", "a", "t", " ", "i", "s">> >>,
     << <<"t", "h", "e", "r", "e", "'", "s">>,
        <<"t", "h", "e", "r", "e", " ", "i", "s">> >>,
     << <<"w", "h", "a", "t", "'", "s">>,
        <<"w", "h", "a", "t", " ", "i", "s">> >>,
     << <<"w", "h", "o", "'", "s">>,
        <<"w", "h", "o", " ", "i", "s">> >>,
     << <<"l", "e", "t", "'", "s">>,
        <<"l", "e", "t", " ", "u", "s">> >>,
     << <<"d", "i", "d", "n", "'", "t">>,
        <<"d", "i", "d", " ", "n", "o", "t">> >>,
     << <<"d", "o", "e", "s", "n", "'", "t">>,
        <<"d", "o", "e", "s", " ", "n", "o", "t">> >>,
     << <<"d", "o", "n", "'", "t">>,
        <<"d", "o", " ", "n", "o", "t">> >>,
     << <<"c", "o", "u", "l", "d", "n", "'", "t">>,
        <<"c", "o", "u", "l", "d", " ", "n", "o", "t">> >>,
     << <<"s", "h", "o", "u", "l", "d", "n", "'", "t">>,
        <<"s", "h", "o", "u", "l", "d", " ", "n", "o", "t">> >>,
     << <<"w", "o", "u", "l", "d", "n", "'", "t">>,
        <<"w", "o", "u", "l", "d", " ", "n", "o", "t">> >>,
     << <<"i", "s", "n", "'", "t">>,
        <<"i", "s", " ", "n", "o", "t">> >>,
     << <<"a", "r", "e", "n", "'", "t">>,
        <<"a", "r", "e", " ", "n", "o", "t">> >>,
     << <<"w", "e", "r", "e", "n", "'", "t">>,
        <<"w", "e", "r", "e", " ", "n", "o", "t">> >>,
     << <<"h", "a", "s", "n", "'", "t">>,
        <<"h", "a", "s", " ", "n", "o", "t">> >>,
     << <<"h", "a", "v", "e", "n", "'", "t">>,
        <<"h", "a", "v", "e", " ", "n", "o", "t">> >>,
     << <<"h", "a", "d", "n", "'", "t">>,
        <<"h", "a", "d", " ", "n", "o", "t">> >> >>

SUFFIX_CONTRACTIONS ==
  << << <<"n", "'", "t">>, <<" ", "n", "o", "t">> >>,
     << <<"'", "r", "e">>, <<" ", "a", "r", "e">> >>,
     << <<"'", "s">>, <<" ", "i", "s">> >>,
     << <<"'", "l", "l">>, <<" ", "w", "i", "l", "l">> >>,
     << <<"'", "v", "e">>, <<" ", "h", "a", "v", "e">> >>,
     << <<"'", "d">>, <<" ", "w", "o", "u", "l", "d">> >>,
     << <<"'", "m">>, <<" ", "a", "m">> >> >>

ACADEMIC_TRANSITIONS ==
  << <<"M", "o", "r", "e", "o", "v", "e", "r", ",">>,
     <<"A", "d", "d", "i", "t", "i", "o", "n", "a", "l", "l", "y", ",">>,
     <<"F", "u", "r", "t", "h", "e", "r", "m", "o", "r", "e", ",">>,
     <<"H", "e", "n", "c", "e", ",">>,
     <<"T", "h", "e", "r", "e", "f", "o", "r", "e", ",">>,
     <<"C", "o", "n", "s", "e", "q", "u", "e", "n", "t", "l", "y", ",">>,
     <<"N", "o", "n", "e", "t", "h", "e", "l", "e", "s", "s", ",">>,
     <<"N", "e", "v", "e", "r", "t", "h", "e", "l", "e", "s", "s", ",">>,
     <<"I", "n", " ", "c", "o", "n", "t", "r", "a", "s", "t", ",">>,
     <<"O", "n", " ", "t", "h", "e", " ", "o", "t", "h", "e", "r", " ", "h", "a", "n", "d", ",">>,
     <<"I", "n", " ", "a", "d", "d", "i", "t", "i", "o", "n", ",">>,
     <<"A", "s", " ", "a", " ", "r", "e", "s", "u", "l", "t", ",">> >>

(***************************************************************************)
(* expand_contractions                                                     *)
(***************************************************************************)
\* Index of the first alternative of the alternation of the table's keys
\* that matches at p under re.IGNORECASE, 0 when none
WholeWordAt(s, p) ==
    LET hits == {k \in DOMAIN WHOLE_CONTRACTIONS : StartsWithAtCI(s, p, WHOLE_CONTRACTIONS[k][1])}
    IN IF hits = {} THEN 0 ELSE Min(hits)

\* whole_pattern at p:  (?:(``)\s*)?(?P<word>alt)(?:\s*(''))?
\* [k: the alternative, w: start of word, open/close: the quote groups,
\*  e: end (exclusive)], k = 0 when there is no match at p
WholeMatch(s, p) ==
    LET hasOpen == StartsWithAt(s, p, <<BT, BT>>)
                   /\ WholeWordAt(s, RunEnd(s, p + 2, SpaceSet)) # 0
        w == IF hasOpen THEN RunEnd(s, p + 2, SpaceSet) ELSE p
        k == WholeWordAt(s, w)
        we == w + (IF k = 0 THEN 0 ELSE Len(WHOLE_CONTRACTIONS[k][1]))
        c == RunEnd(s, we, SpaceSet)
        hasClose == StartsWithAt(s, c, <<"'", "'">>)
    IN [k |-> k, w |-> w, open |-> hasOpen, close |-> hasClose,
        e |-> IF hasClose THEN c + 2 ELSE we]

\* _replace_whole_with_quotes(match)
replace_whole_with_quotes(s, m) ==
    LET word == SubSeq(s, m.w, m.w + Len(WHOLE_CONTRACTIONS[m.k][1]) - 1)
        repl == WHOLE_CONTRACTIONS[m.k][2]
        cased == IF IsUpper(word[1]) THEN Capitalize(repl) ELSE repl
    IN (IF m.open THEN <<BT, BT>> ELSE <<>>) \o cased
       \o (IF m.close THEN <<"'", "'">> ELSE <<>>)

\* re.sub(whole_pattern, _replace_whole_with_quotes, sentence, flags=re.IGNORECASE)
RECURSIVE WholePassFrom(_, _)
WholePassFrom(s, p) ==
    LET hits == {q \in p..Len(s) : WholeMatch(s, q).k # 0}
    IN IF hits = {} THEN SubSeq(s, p, Len(s))
       ELSE SubSeq(s, p, Min(hits) - 1)
            \o replace_whole_with_quotes(s, WholeMatch(s, Min(hits)))
            \o WholePassFrom(s, WholeMatch(s, Min(hits)).e)

WholePass(sentence) == WholePassFrom(sentence, 1)

\* Index of the first suffix of the table, in dict order, that lower_t ends
\* with, 0 when none
SuffixOf(lower_t) ==
    LET hits == {k \in DOMAIN SUFFIX_CONTRACTIONS : EndsWith(lower_t, SUFFIX_CONTRACTIONS[k][1])}
    IN IF hits = {} THEN 0 ELSE Min(hits)

\* the body of the loop over tokens
SuffixToken(t) ==
    LET lower_t == Lower(t)
        k == SuffixOf(lower_t)
    IN IF k = 0 THEN t
       ELSE LET base == SubSeq(lower_t, 1, Len(lower_t) - Len(SUFFIX_CONTRACTIONS[k][1]))
                new_t == base \o SUFFIX_CONTRACTIONS[k][2]
            IN IF Len(t) > 0 /\ IsUpper(t[1]) THEN Capitalize(new_t) ELSE new_t

SuffixPass(tokens) == [i \in DOMAIN tokens |-> SuffixToken(tokens[i])]

expand_contractions(sentence) ==
    Join(SuffixPass(word_tokenize(WholePass(sentence))), <<" ">>)

(***************************************************************************)
(* External collaborators: the spaCy pipeline nlp (tokenizer and           *)
(* part-of-speech tagger) and the WordNet database.  Their code and data   *)
(* are not part of the repository; the model gives them a small lexicon    *)
(* that holds every case replace_synonyms and get_synonyms distinguish:    *)
(* open-class and closed-class tags, words with and without synsets,       *)
(* synsets of another part of speech, a synset whose only lemma is the     *)
(* word itself, a word with two synonyms, lemma names with "_" and lemma    *)
(* names that differ from the word only in case.                           *)
(***************************************************************************)
PosTable ==
  << << <<"b", "i", "g">>, "ADJ" >>,
     << <<"l", "a", "r", "g", "e">>, "ADJ" >>,
     << <<"c", "a", "t">>, "NOUN" >>,
     << <<"z", "e", "b", "r", "a">>, "NOUN" >>,
     << <<"g", "o">>, "VERB" >>,
     << <<"f", "a", "s", "t">>, "ADV" >>,
     << <<"i", "t">>, "PRON" >>,
     << <<"i", "s">>, "AUX" >>,
     << <<"t", "h", "e">>, "DET" >>,
     << <<"n", "o", "t">>, "PART" >>,
     << <<"c", "a", "n">>, "AUX" >> >>

SynsetTable ==
  << << <<"b", "i", "g">>,
        { [pos |-> "a", lemmas |-> {<<"b", "i", "g">>, <<"l", "a", "r", "g", "e">>}] } >>,
     << <<"c", "a", "t">>,
        { [pos |-> "n", lemmas |-> {<<"c", "a", "t">>, <<"t", "r", "u", "e", "_", "c", "a", "t">>}],
          [pos |-> "n", lemmas |-> {<<"c", "a", "t">>, <<"g", "u", "y">>}],
          [pos |-> "v", lemmas |-> {<<"c", "a", "t">>, <<"v", "o", "m", "i", "t">>}] } >>,
     << <<"z", "e", "b", "r", "a">>,
        { [pos |-> "n", lemmas |-> {<<"z", "e", "b", "r", "a">>}] } >>,
     << <<"g", "o">>,
        { [pos |-> "v", lemmas |-> {<<"g", "o">>, <<"m", "o", "v", "e">>}],
          [pos |-> "n", lemmas |-> {<<"g", "o">>, <<"t", "u", "r", "n">>}] } >>,
     << <<"f", "a", "s", "t">>,
        { [pos |-> "a", lemmas |-> {<<"f", "a", "s", "t">>, <<"q", "u", "i", "c", "k">>}] } >>,
     << <<"i", "t">>,
        { [pos |-> "n", lemmas |-> {<<"I", "T">>, <<"i", "n", "f", "o", "r", "m", "a", "t", "i", "o", "n", "_", "t", "e", "c", "h", "n", "o", "l", "o", "g", "y">>}] } >>,
     << <<"i", "s">>,
        { [pos |-> "v", lemmas |-> {<<"b", "e">>, <<"e", "x", "i", "s", "t">>}] } >>,
     << <<"c", "a", "n">>,
        { [pos |-> "n", lemmas |-> {<<"c", "a", "n">>, <<"t", "i", "n">>}] } >> >>

SpacyPrefixSet == {"(", "[", "{", "<", "\"", "'", BT, "&", "_"}
SpacySuffixSet == {")", "]", "}", ">", "\"", "'", BT, "&", "_", ".", ",", "!", "?", ";", ":"}
QuoteUnits == { <<BT, BT>>, <<"'", "'">> }

\* the tokenizer's prefix and suffix rules on one whitespace-free chunk
RECURSIVE SpacyChunk(_)
SpacyChunk(c) ==
    IF Len(c) <= 1 THEN (IF c = <<>> THEN <<>> ELSE <<c>>)
    ELSE IF SubSeq(c, 1, 2) \in QuoteUnits THEN <<SubSeq(c, 1, 2)>> \o SpacyChunk(SubSeq(c, 3, Len(c)))
    ELSE IF c[1] \in SpacyPrefixSet THEN <<SubSeq(c, 1, 1)>> \o SpacyChunk(Tail(c))
    ELSE IF SubSeq(c, Len(c) - 1, Len(c)) \in QuoteUnits
         THEN SpacyChunk(SubSeq(c, 1, Len(c) - 2)) \o <<SubSeq(c, Len(c) - 1, Len(c))>>
    ELSE IF c[Len(c)] \in SpacySuffixSet
         THEN SpacyChunk(SubSeq(c, 1, Len(c) - 1)) \o <<SubSeq(c, Len(c), Len(c))>>
    ELSE <<c>>

\* The texts of the tokens of nlp(sentence).  One blank after a token is
\* that token's trailing whitespace; further blanks are a token of their own.
RECURSIVE SpacyTexts(_, _)
SpacyTexts(s, p) ==
    IF p > Len(s) THEN <<>>
    ELSE IF s[p] \in SpaceSet
         THEN LET b == RunEnd(s, p, SpaceSet)
              IN <<SubSeq(s, p, b - 1)>> \o SpacyTexts(s, b)
         ELSE LET b == RunEndNot(s, p, SpaceSet)
                  w == RunEnd(s, b, SpaceSet)
              IN SpacyChunk(SubSeq(s, p, b - 1))
                 \o (IF w - b >= 2 THEN <<SubSeq(s, b + 1, w - 1)>> ELSE <<>>)
                 \o SpacyTexts(s, w)

TableGet(table, key, default) ==
    LET hits == {k \in DOMAIN table : table[k][1] = key}
    IN IF hits = {} THEN default ELSE table[Min(hits)][2]

\* token.pos_
PosOf(text) ==
    IF \A i \in DOMAIN text : text[i] \in SpaceSet THEN "SPACE"
    ELSE IF \A i \in DOMAIN text : text[i] \in DigitSet THEN "NUM"
    ELSE IF \A i \in DOMAIN text : text[i] \notin LetterSet THEN "PUNCT"
    ELSE TableGet(PosTable, Lower(text), IF IsUpper(text[1]) THEN "PROPN" ELSE "NOUN")

\* nlp(sentence): the tokens with their tags
nlp_doc(sentence) ==
    LET texts == SpacyTexts(sentence, 1)
    IN [i \in DOMAIN texts |-> [text |-> texts[i], pos_ |-> PosOf(texts[i])]]

\* wordnet.synsets(word): the synsets of every part of speech
synsets(word) == TableGet(SynsetTable, Lower(word), {})

\* str.replace("_", " ")
Underscores(name) == [i \in DOMAIN name |-> IF name[i] = "_" THEN " " ELSE name[i]]

\* Defect variant of get_synonyms: without the test that keeps the word
\* itself out of its synonyms
get_synonyms_with_word(word, pos) ==
    LET wn_pos == CASE pos = "ADJ" -> "a"
                    [] pos = "NOUN" -> "n"
                    [] pos = "ADV" -> "r"
                    [] pos = "VERB" -> "v"
                    [] OTHER -> "none"
        names == UNION {s.lemmas : s \in {x \in synsets(word) : x.pos = wn_pos}}
    IN {Underscores(n) : n \in names}

\* get_synonyms(word, pos): the set of synonyms (before list(...))
get_synonyms(word, pos) ==
    LET wn_pos == CASE pos = "ADJ" -> "a"
                    [] pos = "NOUN" -> "n"
                    [] pos = "ADV" -> "r"
                    [] pos = "VERB" -> "v"
                    [] OTHER -> "none"
        names == UNION {s.lemmas : s \in {x \in synsets(word) : x.pos = wn_pos}}
    IN {Underscores(n) : n \in {m \in names : Lower(Underscores(m)) # Lower(word)}}

\* list(synonyms): the iteration order of a set of str follows the hashes
\* of its members, which the interpreter salts per process; h selects one
\* of the orders
RECURSIVE SetToSeq(_)
SetToSeq(S) ==
    IF S = {} THEN <<>>
    ELSE LET x == CHOOSE y \in S : TRUE IN <<x>> \o SetToSeq(S \ {x})

Reverse(q) == [i \in DOMAIN q |-> q[Len(q) + 1 - i]]

ListOfSet(S, h) == IF h = 0 THEN SetToSeq(S) ELSE Reverse(SetToSeq(S))

(***************************************************************************)
(* The random module.  A generator output v in 0..RandMax-1 stands for     *)
(* random.random() = v / RandMax; a probability is p / RandMax with p in   *)
(* 0..RandMax, so that random.random() < probability is v < p.             *)
(***************************************************************************)
RandMax == 2

\* Defect variant of RandBelow: <= in place of <, so that a draw equal to
\* the probability passes
RandBelowOrEqual(v, p) == v <= p

\* random.random() < p
RandBelow(v, p) == v < p

\* random.choice(seq), from the generator output v
RandChoice(seq, v) == seq[(v % Len(seq)) + 1]

(***************************************************************************)
(* replace_synonyms, add_academic_transition                               *)
(***************************************************************************)
OpenClass == {"ADJ", "NOUN", "VERB", "ADV"}
Marker == <<"[", "[", "R", "E", "F", "_">>

\* the condition under which a token is put to the draw
Eligible(token) ==
    /\ ~Contains(token.text, Marker)
    /\ token.pos_ \in OpenClass
    /\ synsets(token.text) # {}

\* The loop over doc from token i on; k generator outputs of rnd are used
\* up.  Returns [tokens: new_tokens, used: the outputs used up].
RECURSIVE SynLoop(_, _, _, _, _, _)
SynLoop(doc, i, p_syn, rnd, k, h) ==
    IF i > Len(doc) THEN [tokens |-> <<>>, used |-> k]
    ELSE LET token == doc[i]
             keep(n) == LET r == SynLoop(doc, i + 1, p_syn, rnd, n, h)
                        IN [tokens |-> <<token.text>> \o r.tokens, used |-> r.used]
         IN IF Contains(token.text, Marker) THEN keep(k)
            ELSE IF token.pos_ \in OpenClass /\ synsets(token.text) # {}
            THEN IF RandBelow(rnd[k + 1], p_syn)
                 THEN LET synonyms == ListOfSet(get_synonyms(token.text, token.pos_), h)
                      IN IF synonyms # <<>>
                         THEN LET r == SynLoop(doc, i + 1, p_syn, rnd, k + 2, h)
                              IN [tokens |-> <<RandChoice(synonyms, rnd[k + 2])>> \o r.tokens,
                                  used |-> r.used]
                         ELSE keep(k + 1)
                 ELSE keep(k + 1)
            ELSE keep(k)

\* replace_synonyms(sentence, p_syn) with the spaCy model loaded (nlp) or
\* not, the generator outputs rnd and the hash order h.
\* nlp_loaded tells whether the module-level nlp is a pipeline or None.
\* Returns [text: the str returned, tokens: new_tokens, used: the generator
\* outputs used up].
replace_synonyms(sentence, p_syn, nlp_loaded, rnd, h) ==
    IF ~nlp_loaded THEN [text |-> sentence, tokens |-> <<>>, used |-> 0]
    ELSE LET r == SynLoop(nlp_doc(sentence), 1, p_syn, rnd, 0, h)
         IN [text |-> Join(r.tokens, <<" ">>), tokens |-> r.tokens, used |-> r.used]

\* Defect variant of add_academic_transition: the connective put before the
\* sentence without the blank between them
add_academic_transition_no_blank(sentence, p_transition, rnd) ==
    IF RandBelow(rnd[1], p_transition)
    THEN [text |-> RandChoice(ACADEMIC_TRANSITIONS, rnd[2]) \o sentence, used |-> 2]
    ELSE [text |-> sentence, used |-> 1]

\* add_academic_transition(sentence, p_transition).  Returns [text, used].
add_academic_transition(sentence, p_transition, rnd) ==
    IF RandBelow(rnd[1], p_transition)
    THEN [text |-> RandChoice(ACADEMIC_TRANSITIONS, rnd[2]) \o <<" ">> \o sentence, used |-> 2]
    ELSE [text |-> sentence, used |-> 1]

\* replace_synonyms raises LookupError: the corpus is not installed and the
\* loop comes to wordnet.synsets(token.text), which it does at the first
\* open-class token without the marker.  Nothing in replace_synonyms or in
\* its callers catches the exception.
SynsetsLookupFails(sentence, nlp_loaded, wordnet_loaded) ==
    /\ nlp_loaded /\ ~wordnet_loaded
    /\ \E i \in DOMAIN nlp_doc(sentence) :
           /\ ~Contains(nlp_doc(sentence)[i].text, Marker)
           /\ nlp_doc(sentence)[i].pos_ \in OpenClass

\* the generator outputs one call of replace_synonyms can use up at most
SynDraws(sentence, nlp_loaded) ==
    IF ~nlp_loaded THEN 0
    ELSE LET doc == nlp_doc(sentence)
         IN 2 * Cardinality({i \in DOMAIN doc : Eligible(doc[i])})

(***************************************************************************)
(* minimal_humanize_line, minimal_rewriting, preserve_linebreaks_rewrite   *)
(* run as the steps of the request below; their pure parts are here.       *)
(***************************************************************************)
\* minimal_humanize_line(line, p_syn, p_trans): the three transforms in
\* order, drawing from one generator.  Returns [text, used].
\* the last step of minimal_humanize_line: the connective is drawn from the
\* generator outputs that replace_synonyms (result: replaced) has left
TransitionAfter(replaced, pt, rnd) ==
    LET added == add_academic_transition(replaced.text, pt,
                                         SubSeq(rnd, replaced.used + 1, replaced.used + 2))
    IN [text |-> added.text, used |-> replaced.used + added.used]

minimal_humanize_line(ln, ps, pt, nlp_loaded, rnd, h) ==
    TransitionAfter(replace_synonyms(expand_contractions(ln), ps, nlp_loaded, rnd, h), pt, rnd)

\* str.splitlines(); the modelled texts hold no line boundary but "\n"
RECURSIVE SplitLines(_)
SplitLines(s) ==
    IF s = <<>> THEN <<>>
    ELSE LET i == FindFrom(s, <<NL>>, 1)
         IN IF i = 0 THEN <<s>>
            ELSE <<SubSeq(s, 1, i - 1)>> \o SplitLines(SubSeq(s, i + 1, Len(s)))

(***************************************************************************)
(* The cleanup expressions of show_humanize_page                           *)
(***************************************************************************)
PunctSet == {".", ",", ";", ":", "!", "?"}

\* ``\s*(.+?)\s*'' at p: <<a, b>>, the group is s[a..b-1]; <<0, 0>> when
\* there is no match.  The first \s* is greedy (the largest a is tried
\* first), the group is lazy (the smallest b) and holds no line break.
QuoteSpan(s, p) ==
    IF ~StartsWithAt(s, p, <<BT, BT>>) THEN <<0, 0>>
    ELSE LET q0 == p + 2
             ok(a, b) == /\ \A i \in a..(b - 1) : s[i] # NL
                         /\ StartsWithAt(s, RunEnd(s, b, SpaceSet), <<"'", "'">>)
             as == {a \in q0..RunEnd(s, q0, SpaceSet) :
                      \E b \in (a + 1)..(Len(s) + 1) : ok(a, b)}
         IN IF as = {} THEN <<0, 0>>
            ELSE LET a == Max(as)
                 IN <<a, Min({b \in (a + 1)..(Len(s) + 1) : ok(a, b)})>>

\* End (exclusive) of the match of a cleanup expression at p, 0 when none
CleanMatch(rule, s, p) ==
    LET at(i) == IF i >= 1 /\ i <= Len(s) THEN s[i] ELSE "" IN
    CASE rule = "before_punct" ->   \* [ \t]+([.,;:!?])
           IF at(p) \in BlankSet /\ at(RunEnd(s, p, BlankSet)) \in PunctSet
           THEN RunEnd(s, p, BlankSet) + 1 ELSE 0
      [] rule = "after_open" ->     \* (\()[ \t]+
           IF at(p) = "(" /\ at(p + 1) \in BlankSet THEN RunEnd(s, p + 1, BlankSet) ELSE 0
      [] rule = "before_close" ->   \* [ \t]+(\))
           IF at(p) \in BlankSet /\ at(RunEnd(s, p, BlankSet)) = ")"
           THEN RunEnd(s, p, BlankSet) + 1 ELSE 0
      [] rule = "blank_runs" ->     \* [ \t]{2,}
           IF at(p) \in BlankSet /\ at(p + 1) \in BlankSet THEN RunEnd(s, p, BlankSet) ELSE 0
      [] rule = "paired_quotes" ->  \* ``\s*(.+?)\s*''
           IF QuoteSpan(s, p)[1] = 0 THEN 0
           ELSE RunEnd(s, QuoteSpan(s, p)[2], SpaceSet) + 2

CleanRepl(rule, s, p, e) ==
    CASE rule \in {"before_punct", "before_close"} -> <<s[e - 1]>>
      [] rule = "after_open" -> <<"(">>
      [] rule = "blank_runs" -> <<" ">>
      [] rule = "paired_quotes" ->
           <<"\"">> \o SubSeq(s, QuoteSpan(s, p)[1], QuoteSpan(s, p)[2] - 1) \o <<"\"">>

RECURSIVE CleanSub(_, _, _)
CleanSub(rule, s, p) ==
    LET hits == {q \in p..Len(s) : CleanMatch(rule, s, q) # 0}
    IN IF hits = {} THEN SubSeq(s, p, Len(s))
       ELSE SubSeq(s, p, Min(hits) - 1)
            \o CleanRepl(rule, s, Min(hits), CleanMatch(rule, s, Min(hits)))
            \o CleanSub(rule, s, CleanMatch(rule, s, Min(hits)))

\* the five re.sub calls, in order
Cleanup(text) ==
    CleanSub("paired_quotes",
      CleanSub("blank_runs",
        CleanSub("before_close",
          CleanSub("after_open",
            CleanSub("before_punct", text, 1), 1), 1), 1), 1)

\* count_words, count_sentences
count_words(text) == Len(word_tokenize(text))
count_sentences(text) == Len(sent_tokenize(text))

(***************************************************************************)
(* The request: the press of the Humanize button in show_humanize_page     *)
(***************************************************************************)
\* the fragments the input texts are made of
PipelineParts ==
    << <<"b", "i", "g">>,
       <<"I", "t", "'", "s">>,
       <<"(", "A", ",", " ", "2", "0", "2", "3", ")">>,
       <<"(", " ", "A", ",", " ", "2", "0", "2", "3", ")">>,
       <<" ">>,
       <<NL>>,
       <<".", " ">>,
       <<"\"">>,
       <<"b", "i", "g", "\"">> >>

\* the most fragments of an input text
MaxParts == 3

RECURSIVE TextsOf(_, _)
TextsOf(parts, n) ==
    IF n = 0 THEN {<<>>}
    ELSE LET shorter == TextsOf(parts, n - 1)
         IN shorter \cup {t \o parts[i] : t \in shorter, i \in DOMAIN parts}

\* the streams of n generator outputs
Streams(n) == [1..n -> 0..(RandMax - 1)]

VARIABLES
    input_text, p_syn, p_trans,     \* the text area and the two sliders
    nlp,                            \* whether spacy.load succeeded
    wordnet_found,                  \* whether the WordNet corpus is installed
    pc,                             \* the place of the request in show_humanize_page
    outcome,                        \* "none", "warning" (st.warning), "result" or "error"
    orig_wc, orig_sc, new_wc, new_sc,
    no_refs_text, placeholders,
    lines, out_lines,               \* of preserve_linebreaks_rewrite
    sents, out_sents,               \* lines and out_lines of minimal_rewriting
    line,                           \* of minimal_humanize_line
    partially_rewritten, final_text,
    stages,                         \* the stages run so far, in order
    call, ret                       \* a direct call of one function and what it returned

request == <<input_text, p_syn, p_trans, nlp, wordnet_found>>
counts == <<orig_wc, orig_sc, new_wc, new_sc>>
refs == <<no_refs_text, placeholders>>
rewrite == <<lines, out_lines, sents, out_sents, line>>
results == <<partially_rewritten, final_text>>
harness == <<call, ret>>
vars == <<request, pc, outcome, counts, refs, rewrite, results, stages, harness>>

NoCall == [fn |-> "none"]
NoRet == [done |-> FALSE]

Init ==
    /\ input_text \in TextsOf(PipelineParts, MaxParts)
    /\ p_syn \in 0..RandMax
    /\ p_trans \in 0..RandMax
    /\ nlp \in BOOLEAN
    /\ wordnet_found \in BOOLEAN
    /\ pc = "idle"
    /\ outcome = "none"
    /\ orig_wc = 0 /\ orig_sc = 0 /\ new_wc = 0 /\ new_sc = 0
    /\ no_refs_text = <<>> /\ placeholders = EmptyMap
    /\ lines = <<>> /\ out_lines = <<>> /\ sents = <<>> /\ out_sents = <<>> /\ line = <<>>
    /\ partially_rewritten = <<>> /\ final_text = <<>>
    /\ stages = <<>>
    /\ call = NoCall /\ ret = NoRet

\* if not input_text.strip(): st.warning(...); return
HumanizeEmpty ==
    /\ pc = "idle"
    /\ IsBlank(input_text)
    /\ outcome' = "warning"
    /\ pc' = "done"
    /\ UNCHANGED <<harness, request, counts, refs, rewrite, results, stages>>

\* orig_wc = count_words(input_text); orig_sc = count_sentences(input_text)
HumanizeCount ==
    /\ pc = "idle"
    /\ ~IsBlank(input_text)
    /\ orig_wc' = count_words(input_text)
    /\ orig_sc' = count_sentences(input_text)
    /\ stages' = Append(stages, "count")
    /\ pc' = "extract"
    /\ UNCHANGED <<harness, request, outcome, new_wc, new_sc, refs, rewrite, results>>

\* no_refs_text, placeholders = extract_citations(input_text)
Extract ==
    /\ pc = "extract"
    /\ no_refs_text' = extract_citations(input_text)[1]
    /\ placeholders' = extract_citations(input_text)[2]
    /\ stages' = Append(stages, "extract")
    /\ pc' = "rewrite"
    /\ UNCHANGED <<harness, request, outcome, counts, rewrite, results>>

\* preserve_linebreaks_rewrite: lines = text.splitlines(); out_lines = []
BeginRewrite ==
    /\ pc = "rewrite"
    /\ lines' = SplitLines(no_refs_text)
    /\ out_lines' = <<>>
    /\ pc' = "line"
    /\ UNCHANGED <<harness, request, outcome, counts, refs, sents, out_sents, line, results, stages>>

\* if not ln.strip(): out_lines.append("")
BlankLine ==
    /\ pc = "line"
    /\ Len(out_lines) < Len(lines)
    /\ IsBlank(lines[Len(out_lines) + 1])
    /\ out_lines' = Append(out_lines, <<>>)
    /\ UNCHANGED <<harness, request, pc, outcome, counts, refs, lines, sents, out_sents, line, results, stages>>

\* else: minimal_rewriting(ln, ...): lines = sent_tokenize(text)
BeginLine ==
    /\ pc = "line"
    /\ Len(out_lines) < Len(lines)
    /\ ~IsBlank(lines[Len(out_lines) + 1])
    /\ sents' = sent_tokenize(lines[Len(out_lines) + 1])
    /\ out_sents' = <<>>
    /\ pc' = "sentence"
    /\ UNCHANGED <<harness, request, outcome, counts, refs, lines, out_lines, line, results, stages>>

\* minimal_humanize_line: line = expand_contractions(line)
Expand ==
    /\ pc = "sentence"
    /\ Len(out_sents) < Len(sents)
    /\ line' = expand_contractions(sents[Len(out_sents) + 1])
    /\ stages' = Append(stages, "expand")
    /\ pc' = "synonyms"
    /\ UNCHANGED <<harness, request, outcome, counts, refs, lines, out_lines, sents, out_sents, results>>

\* line = replace_synonyms(line, p_syn=p_syn); a LookupError raised there
\* leaves show_humanize_page: the request ends without a result
Synonyms ==
    /\ pc = "synonyms"
    /\ IF SynsetsLookupFails(line, nlp, wordnet_found)
       THEN /\ outcome' = "error"
            /\ pc' = "done"
            /\ UNCHANGED <<line, stages>>
       ELSE /\ \E rnd \in Streams(SynDraws(line, nlp)), h \in {0, 1} :
                   line' = replace_synonyms(line, p_syn, nlp, rnd, h).text
            /\ stages' = Append(stages, "synonyms")
            /\ pc' = "transition"
            /\ UNCHANGED outcome
    /\ UNCHANGED <<harness, request, counts, refs, lines, out_lines, sents, out_sents, results>>

\* line = add_academic_transition(line, p_transition=p_trans); return line
\* (the list comprehension of minimal_rewriting collects it)
Transition ==
    /\ pc = "transition"
    /\ \E rnd \in Streams(2) :
           out_sents' = Append(out_sents, add_academic_transition(line, p_trans, rnd).text)
    /\ stages' = Append(stages, "transition")
    /\ pc' = "sentence"
    /\ UNCHANGED <<harness, request, outcome, counts, refs, lines, out_lines, sents, line, results>>

\* return " ".join(out_lines) of minimal_rewriting; out_lines.append(...)
EndLine ==
    /\ pc = "sentence"
    /\ Len(out_sents) = Len(sents)
    /\ out_lines' = Append(out_lines, Join(out_sents, <<" ">>))
    /\ pc' = "line"
    /\ UNCHANGED <<harness, request, outcome, counts, refs, lines, sents, out_sents, line, results, stages>>

\* Defect variant of EndRewrite: the lines are rejoined before the loop over
\* them has ended
EndRewriteEarly ==
    /\ pc = "line"
    /\ partially_rewritten' = Join(out_lines, <<NL>>)
    /\ stages' = Append(stages, "rewrite")
    /\ pc' = "restore"
    /\ UNCHANGED <<harness, request, outcome, counts, refs, rewrite, final_text>>

\* return "\n".join(out_lines)
EndRewrite ==
    /\ pc = "line"
    /\ Len(out_lines) = Len(lines)
    /\ partially_rewritten' = Join(out_lines, <<NL>>)
    /\ stages' = Append(stages, "rewrite")
    /\ pc' = "restore"
    /\ UNCHANGED <<harness, request, outcome, counts, refs, rewrite, final_text>>

\* final_text = restore_citations(partially_rewritten, placeholders)
Restore ==
    /\ pc = "restore"
    /\ final_text' = restore_citations(partially_rewritten, placeholders)
    /\ stages' = Append(stages, "restore")
    /\ pc' = "cleanup"
    /\ UNCHANGED <<harness, request, outcome, counts, refs, rewrite, partially_rewritten>>

\* the five re.sub calls, the new counts and the result text area
Finish ==
    /\ pc = "cleanup"
    /\ final_text' = Cleanup(final_text)
    /\ new_wc' = count_words(Cleanup(final_text))
    /\ new_sc' = count_sentences(Cleanup(final_text))
    /\ stages' = stages \o <<"cleanup", "count">>
    /\ outcome' = "result"
    /\ pc' = "done"
    /\ UNCHANGED <<harness, request, orig_wc, orig_sc, refs, rewrite, partially_rewritten>>

Next ==
    \/ HumanizeEmpty
    \/ HumanizeCount
    \/ Extract
    \/ BeginRewrite
    \/ BlankLine
    \/ BeginLine
    \/ Expand
    \/ Synonyms
    \/ Transition
    \/ EndLine
    \/ EndRewrite
    \/ Restore
    \/ Finish

Spec == Init /\ [][Next]_vars

(***************************************************************************)
(* Direct calls of the functions: the arguments are drawn from bounded     *)
(* sets by InitFn and one step applies the function called.                *)
(***************************************************************************)
\* the sequences of at most k indices into a list of n fragments
IndexSeqs(n, k) == UNION {[1..m -> 1..n] : m \in 0..k}

RECURSIVE Flatten(_, _)
Flatten(parts, idx) ==
    IF idx = <<>> THEN <<>> ELSE parts[Head(idx)] \o Flatten(parts, Tail(idx))

CitA == <<"(", "A", ",", " ", "2", "0", "2", "3", ")">>
CitB == <<"(", "B", " ", "e", "t", " ", "a", "l", ".", ",", " ", "2", "0", "2", "4", ",", " ", "p", "p", ".", " ", "4", "-", "5", ")">>

\* extract_citations: a citation, the two halves of one, text that joins
\* the halves into another citation, and a placeholder-shaped fragment
ExtractParts ==
    << CitA,
       <<"(", "A">>,
       <<",", " ", "2", "0", "2", "3", ")">>,
       <<" ", "b", " ">>,
       <<"[", "[", "R", "E", "F", "_", "1", "]", "]">> >>
MaxExtractParts == 4

\* restore_citations: [t: the fragment, n: the number of the placeholder
\* the fragment is, 0 when it is none]
RestoreParts ==
    << [t |-> <<"[", "[", "R", "E", "F", "_", "1", "]", "]">>, n |-> 1],
       [t |-> <<"[", " ", "[", " ", "R", "E", "F", "_", "2", " ", "]", " ", "]">>, n |-> 2],
       [t |-> <<"[", "[", "R", "E", "F", "_", "3", "]", "]">>, n |-> 3],
       [t |-> <<"[", "[", "R", "E", "F", "_", " ", "1", "]", "]">>, n |-> 0],
       [t |-> <<"x", " ">>, n |-> 0],
       [t |-> <<"[">>, n |-> 0] >>
MaxRestoreParts == 3
RestoreTexts == [i \in DOMAIN RestoreParts |-> RestoreParts[i].t]
RestoreMaps ==
    { EmptyMap,
      MapPut(EmptyMap, Placeholder(1), CitA),
      MapPut(MapPut(EmptyMap, Placeholder(1), CitA), Placeholder(2), CitB) }

\* expand_contractions: two table entries, a letter that makes an entry the
\* tail of a longer word, and the tokenizer's quote markers
ExpandParts ==
    << <<"i", "t", "'", "s">>,
       <<"C", "a", "n", "'", "t">>,
       <<"b">>,
       <<" ">>,
       <<BT, BT>>,
       <<"'", "'">> >>
MaxExpandParts == 3

\* expand_contractions, the suffix pass: a word in capitals, suffixes the
\* tokenizer splits off ('ll) and suffixes it leaves on the word ('Ll, n'T)
SuffixParts ==
    << <<"N", "A", "S", "A">>,
       <<"g", "o">>,
       <<"'", "L", "l">>,
       <<"'", "l", "l">>,
       <<"n", "'", "T">>,
       <<" ">> >>
MaxSuffixParts == 3

\* replace_synonyms: words of the lexicon and a placeholder
SynonymParts ==
    << <<"b", "i", "g">>,
       <<"z", "e", "b", "r", "a">>,
       <<"c", "a", "t">>,
       <<" ">>,
       <<"[", "[", "R", "E", "F", "_", "1", "]", "]">> >>
MaxSynonymParts == 3

\* minimal_humanize_line: a placeholder among words
LineParts ==
    << <<"[", "[", "R", "E", "F", "_", "1", "]", "]">>,
       <<"b", "i", "g">>,
       <<"I", "t", "'", "s">>,
       <<" ">>,
       <<"[", "[", "R", "E", "F", "_", "1", "2", "]", "]", ".">> >>
MaxLineParts == 3

Call(fn, text, parts, map, ps, pt, nl, rnd, h) ==
    [fn |-> fn, text |-> text, parts |-> parts, map |-> map,
     p_syn |-> ps, p_trans |-> pt, nlp |-> nl, rnd |-> rnd, h |-> h]

\* call is a call of extract_citations(text)
ExtractCalls ==
    \E t \in TextsOf(ExtractParts, MaxExtractParts) :
        call = Call("extract_citations", t, <<>>, EmptyMap, 0, 0, TRUE, <<>>, 0)

\* call is a call of restore_citations(text, placeholder_map)
RestoreCalls ==
    \E idx \in IndexSeqs(Len(RestoreParts), MaxRestoreParts), map \in RestoreMaps :
        call = Call("restore_citations", Flatten(RestoreTexts, idx), idx, map, 0, 0, TRUE, <<>>, 0)

\* call is a call of expand_contractions(sentence)
ExpandCalls ==
    \E t \in TextsOf(ExpandParts, MaxExpandParts) \cup TextsOf(SuffixParts, MaxSuffixParts) :
        call = Call("expand_contractions", t, <<>>, EmptyMap, 0, 0, TRUE, <<>>, 0)

\* call is a call of replace_synonyms(sentence, p_syn), with the model
\* loaded or not, the generator outputs it may use and a hash order
SynonymCalls ==
    \E t \in TextsOf(SynonymParts, MaxSynonymParts), ps \in 0..RandMax, nl \in BOOLEAN, h \in {0, 1} :
        \E rnd \in Streams(SynDraws(t, nl)) :
            call = Call("replace_synonyms", t, <<>>, EmptyMap, ps, 0, nl, rnd, h)

\* call is a call of minimal_humanize_line(line, p_syn, p_trans)
LineCalls ==
    \E t \in TextsOf(LineParts, MaxLineParts), ps \in 0..RandMax, pt \in 0..RandMax :
        \E expanded \in {expand_contractions(t)} :
            \E rnd \in Streams(SynDraws(expanded, TRUE) + 2) :
                call = Call("minimal_humanize_line", t, <<>>, EmptyMap, ps, pt, TRUE, rnd, 0)

\* add_academic_transition: a sentence, with or without a connective of
\* the list at its head
TransitionParts ==
    << <<"b", "i", "g">>,
       <<" ">>,
       <<"H", "e", "n", "c", "e", ",">> >>
MaxTransitionParts == 3

\* call is a call of add_academic_transition(sentence, p_transition); the
\* generator gives the output compared with p_transition and the number
\* random.choice reduces to an index of the list
TransitionCalls ==
    \E t \in TextsOf(TransitionParts, MaxTransitionParts), pt \in 0..RandMax,
       v \in 0..(RandMax - 1), c \in 0..(Len(ACADEMIC_TRANSITIONS) - 1) :
        call = Call("add_academic_transition", t, <<>>, EmptyMap, 0, pt, TRUE, <<v, c>>, 0)

InitFn ==
    /\ \/ ExtractCalls \/ RestoreCalls \/ ExpandCalls \/ SynonymCalls \/ LineCalls
       \/ TransitionCalls
    /\ ret = NoRet
    /\ input_text = <<>> /\ p_syn = 0 /\ p_trans = 0 /\ nlp = TRUE /\ wordnet_found = TRUE
    /\ pc = "idle"
    /\ outcome = "none"
    /\ orig_wc = 0 /\ orig_sc = 0 /\ new_wc = 0 /\ new_sc = 0
    /\ no_refs_text = <<>> /\ placeholders = EmptyMap
    /\ lines = <<>> /\ out_lines = <<>> /\ sents = <<>> /\ out_sents = <<>> /\ line = <<>>
    /\ partially_rewritten = <<>> /\ final_text = <<>>
    /\ stages = <<>>

pipeline == <<request, pc, outcome, counts, refs, rewrite, results, stages>>

ApplyExtract ==
    /\ call.fn = "extract_citations" /\ ~ret.done
    /\ ret' = [done |-> TRUE,
               text |-> extract_citations(call.text)[1],
               map |-> extract_citations(call.text)[2]]
    /\ UNCHANGED <<call, pipeline>>

ApplyRestore ==
    /\ call.fn = "restore_citations" /\ ~ret.done
    /\ ret' = [done |-> TRUE, text |-> restore_citations(call.text, call.map)]
    /\ UNCHANGED <<call, pipeline>>

\* whole: the sentence after the re.sub of the whole-word pass
ApplyExpand ==
    /\ call.fn = "expand_contractions" /\ ~ret.done
    /\ ret' = [done |-> TRUE,
               whole |-> WholePass(call.text),
               text |-> expand_contractions(call.text)]
    /\ UNCHANGED <<call, pipeline>>

ApplySynonyms ==
    /\ call.fn = "replace_synonyms" /\ ~ret.done
    /\ ret' = LET r == replace_synonyms(call.text, call.p_syn, call.nlp, call.rnd, call.h)
              IN [done |-> TRUE, text |-> r.text, tokens |-> r.tokens, used |-> r.used]
    /\ UNCHANGED <<call, pipeline>>

ApplyHumanizeLine ==
    /\ call.fn = "minimal_humanize_line" /\ ~ret.done
    /\ ret' = LET r == minimal_humanize_line(call.text, call.p_syn, call.p_trans,
                                             call.nlp, call.rnd, call.h)
              IN [done |-> TRUE, text |-> r.text, used |-> r.used]
    /\ UNCHANGED <<call, pipeline>>

ApplyTransition ==
    /\ call.fn = "add_academic_transition" /\ ~ret.done
    /\ ret' = LET r == add_academic_transition(call.text, call.p_trans, call.rnd)
              IN [done |-> TRUE, text |-> r.text, used |-> r.used]
    /\ UNCHANGED <<call, pipeline>>

NextFn ==
    \/ ApplyTransition
    \/ ApplyExtract
    \/ ApplyRestore
    \/ ApplyExpand
    \/ ApplySynonyms
    \/ ApplyHumanizeLine

SpecFn == InitFn /\ [][NextFn]_vars
(***************************************************************************)
(* Properties of the request                                               *)
(***************************************************************************)
\* the request has shown its result
Done == pc = "done" /\ outcome = "result"

\* the strings of cits occur in text from position p on, one after the
\* other and in this order
RECURSIVE OccurInOrder(_, _, _)
OccurInOrder(cits, text, p) ==
    IF cits = <<>> THEN TRUE
    ELSE LET i == FindFrom(text, Head(cits), p)
         IN i # 0 /\ OccurInOrder(Tail(cits), text, i + Len(Head(cits)))

\* C1: the final text of a request holds every citation that CITATION_REGEX
\* matched in the input, character for character, and the citations come in
\* the order they have in the input.
C1_CitationsVerbatim ==
    Done => OccurInOrder(FindAllCitations(input_text), final_text, 1)

\* str.split("\n"): the segments between line breaks
RECURSIVE SplitNL(_)
SplitNL(s) ==
    LET i == FindFrom(s, <<NL>>, 1)
    IN IF i = 0 THEN <<s>>
       ELSE <<SubSeq(s, 1, i - 1)>> \o SplitNL(SubSeq(s, i + 1, Len(s)))

\* C2: for a multi-line input the final text has as many line-break-delimited
\* segments as the input.  The segments are counted either as str.split("\n")
\* counts them or as str.splitlines() does (a final line break ends the last
\* line); the claim is taken to hold when either count is kept.
C2_SameLineCount ==
    (Done /\ Contains(input_text, <<NL>>)) =>
        \/ Len(SplitNL(final_text)) = Len(SplitNL(input_text))
        \/ Len(SplitLines(final_text)) = Len(SplitLines(input_text))

\* every blank line of inl is a blank line of outl at the same index, and
\* outl has the lines of inl, none merged and none split
BlankLinesKept(inl, outl) ==
    /\ Len(outl) = Len(inl)
    /\ \A i \in DOMAIN inl : IsBlank(inl[i]) <=> IsBlank(outl[i])

\* C3: every blank or whitespace-only line of the input is a blank line at
\* the same line index of the final text, and no lines are merged or split.
\* Lines are taken either as str.split("\n") or as str.splitlines() gives
\* them; the claim is taken to hold when it holds for either.
C3_BlankLinesKept ==
    Done =>
        \/ BlankLinesKept(SplitNL(input_text), SplitNL(final_text))
        \/ BlankLinesKept(SplitLines(input_text), SplitLines(final_text))

\* One sentence through minimal_humanize_line when nothing is drawn: the
\* contractions are expanded and, where the spaCy model is loaded, the
\* tokens of the sentence are joined again by single blanks.
PlainSentence(sentence, nlp_loaded) ==
    LET expanded == expand_contractions(sentence)
        doc == nlp_doc(expanded)
    IN IF nlp_loaded THEN Join([i \in DOMAIN doc |-> doc[i].text], <<" ">>)
       ELSE expanded

\* one line of the text, sentence by sentence
PlainLine(ln, nlp_loaded) ==
    LET ss == sent_tokenize(ln)
    IN IF IsBlank(ln) THEN <<>>
       ELSE Join([j \in DOMAIN ss |-> PlainSentence(ss[j], nlp_loaded)], <<" ">>)

\* The text that contraction expansion and whitespace/punctuation
\* normalization alone make of an input: no synonym, no connective.
PlainText(text, nlp_loaded) ==
    LET extracted == extract_citations(text)
        ls == SplitLines(extracted[1])
        rewritten == Join([i \in DOMAIN ls |-> PlainLine(ls[i], nlp_loaded)], <<NL>>)
    IN Cleanup(restore_citations(rewritten, extracted[2]))

\* C4: with p_syn = 0 and p_trans = 0, whatever the generator gives,
\* replace_synonyms emits every token as it stands, add_academic_transition
\* returns its sentence as it stands, and the final text is the input with
\* its contractions expanded and its whitespace and punctuation normalized.
C4_ZeroProbabilities ==
    [][ /\ (pc = "synonyms" /\ pc' = "transition" /\ p_syn = 0) =>
               line' = (IF nlp THEN Join([i \in DOMAIN nlp_doc(line) |-> nlp_doc(line)[i].text],
                                         <<" ">>)
                        ELSE line)
        /\ (pc = "transition" /\ pc' = "sentence" /\ p_trans = 0) =>
               out_sents' = Append(out_sents, line)
        /\ (pc = "cleanup" /\ pc' = "done" /\ p_syn = 0 /\ p_trans = 0) =>
               final_text' = PlainText(input_text, nlp)
      ]_vars

\* a finished request with both probabilities 0 and the model loaded, whose
\* input holds a contraction and a word that has synonyms
C4_Witness ==
    /\ Done /\ p_syn = 0 /\ p_trans = 0 /\ nlp
    /\ input_text = <<"I", "t", "'", "s", " ", "b", "i", "g">>
    /\ final_text = <<"I", "t", " ", "i", "s", " ", "b", "i", "g">>

(***************************************************************************)
(* Properties of the functions, on direct calls                            *)
(***************************************************************************)
\* a call of fn has returned
Returned(fn) == call.fn = fn /\ ret.done

\* The names WordNet gives for a token other than the token itself: the
\* lemmas of the synsets of the token's own part of speech, underscores
\* read as blanks, that differ from the token when case is ignored.
OtherNames(token) ==
    LET wn == [ADJ |-> "a", NOUN |-> "n", ADV |-> "r", VERB |-> "v"]
        own == {x \in synsets(token.text) :
                   token.pos_ \in DOMAIN wn /\ x.pos = wn[token.pos_]}
        names == {Underscores(n) : n \in UNION {x.lemmas : x \in own}}
    IN {n \in names : Lower(n) # Lower(token.text)}

\* C5 as the specification words it: with p_syn = 1 every eligible token
\* (open class, at least one synset, no placeholder marker) is replaced by a
\* token different from the original.
C5_EveryEligibleReplaced ==
    (Returned("replace_synonyms") /\ call.nlp /\ call.p_syn = RandMax) =>
        LET doc == nlp_doc(call.text)
        IN \A i \in DOMAIN doc : Eligible(doc[i]) => ret.tokens[i] # doc[i].text

\* C5, amended: with p_syn = 1 every eligible token that has a synonym of
\* its own part of speech other than itself is replaced by one of those
\* synonyms, which differs from the original; an eligible token that has
\* none, and every token that is not eligible, is emitted as it stands.
C5_EligibleWithSynonymReplaced ==
    (Returned("replace_synonyms") /\ call.nlp /\ call.p_syn = RandMax) =>
        LET doc == nlp_doc(call.text)
        IN /\ Len(ret.tokens) = Len(doc)
           /\ \A i \in DOMAIN doc :
                  IF Eligible(doc[i]) /\ OtherNames(doc[i]) # {}
                  THEN ret.tokens[i] \in OtherNames(doc[i]) /\ ret.tokens[i] # doc[i].text
                  ELSE ret.tokens[i] = doc[i].text

\* "big zebra" with p_syn = 1: big has a synonym and is replaced, zebra has
\* a synset but no synonym and is kept
C5_Witness ==
    /\ Returned("replace_synonyms") /\ call.nlp /\ call.p_syn = RandMax
    /\ call.text = <<"b", "i", "g", " ", "z", "e", "b", "r", "a">>
    /\ ret.tokens = << <<"l", "a", "r", "g", "e">>, <<"z", "e", "b", "r", "a">> >>

\* text from p on with the i-th, (i+1)-th, ... match of CITATION_REGEX
\* replaced, each at its own position, by its placeholder
RECURSIVE ReplacedInPlace(_, _, _)
ReplacedInPlace(s, p, i) ==
    IF p > Len(s) THEN <<>>
    ELSE LET e == CitationMatchEnd(s, p)
         IN IF e = 0 THEN <<s[p]>> \o ReplacedInPlace(s, p + 1, i)
            ELSE Placeholder(i) \o ReplacedInPlace(s, e, i + 1)

\* C6: extract_citations replaces the i-th match, at its own position, with
\* [[REF_i]] and returns the map with exactly the entries [[REF_i]] -> the
\* text of the i-th match; the placeholders of different matches differ,
\* also when the matches are the same string.
C6_ExtractInPlace ==
    Returned("extract_citations") =>
        LET found == FindAllCitations(call.text)
        IN /\ ret.text = ReplacedInPlace(call.text, 1, 1)
           /\ DOMAIN ret.map = {Placeholder(i) : i \in DOMAIN found}
           /\ \A i \in DOMAIN found : ret.map[Placeholder(i)] = found[i]
           /\ \A i, j \in DOMAIN found : i # j => Placeholder(i) # Placeholder(j)

\* the same citation twice
C6_Witness ==
    /\ Returned("extract_citations")
    /\ call.text = CitA \o <<" ", "b", " ">> \o CitA
    /\ ret.text = Placeholder(1) \o <<" ", "b", " ">> \o Placeholder(2)
    /\ ret.map[Placeholder(1)] = CitA /\ ret.map[Placeholder(2)] = CitA

\* what restore_citations is to make of the fragments idx of RestoreParts:
\* a fragment that is placeholder n becomes the original of [[REF_n]] when
\* the map holds it, every other fragment stays
RECURSIVE RestoredParts(_, _)
RestoredParts(idx, map) ==
    IF idx = <<>> THEN <<>>
    ELSE LET part == RestoreParts[Head(idx)]
         IN (IF part.n # 0 /\ Placeholder(part.n) \in DOMAIN map
             THEN map[Placeholder(part.n)] ELSE part.t)
            \o RestoredParts(Tail(idx), map)

\* C7: restore_citations replaces every occurrence of a placeholder, also
\* one with whitespace between the brackets and REF_n, by the original the
\* map holds for [[REF_n]], leaves an occurrence the map has no entry for
\* as it stands, and changes nothing else.
C7_RestoreEveryPlaceholder ==
    Returned("restore_citations") => ret.text = RestoredParts(call.parts, call.map)

\* a spaced placeholder the map holds, a placeholder it does not hold, text
C7_Witness ==
    /\ Returned("restore_citations")
    /\ call.parts = <<2, 3, 5>>
    /\ DOMAIN call.map = {Placeholder(1), Placeholder(2)}
    /\ ret.text = CitB \o Placeholder(3) \o <<"x", " ">>

\* C8: extract_citations applied to the text a call of extract_citations
\* returned gives that text back unchanged, with an empty map.
C8_ExtractIdempotent ==
    Returned("extract_citations") => extract_citations(ret.text) = <<ret.text, EmptyMap>>

\* a returned text that holds two placeholders
C8_Witness ==
    /\ Returned("extract_citations")
    /\ Len(FindAllCitations(call.text)) = 2
    /\ Contains(ret.text, Placeholder(1)) /\ Contains(ret.text, Placeholder(2))
    /\ ret.text # call.text

\* the numbers of the placeholders restore_citations recognises in s from p
\* on, in order
RECURSIVE PlaceholderKeys(_, _)
PlaceholderKeys(s, p) ==
    IF p > Len(s) THEN <<>>
    ELSE LET m == PlaceholderMatch(s, p)
         IN IF m[1] = 0 THEN PlaceholderKeys(s, p + 1)
            ELSE <<m[2]>> \o PlaceholderKeys(s, m[1])

\* C9: whatever p_syn is, replace_synonyms emits a token that holds the
\* placeholder marker as it stands and draws from the generator only for
\* eligible tokens; and the placeholders of a line are the placeholders
\* restore_citations recognises, in the same order, after
\* expand_contractions, replace_synonyms and add_academic_transition.
C9_PlaceholdersKept ==
    /\ (Returned("replace_synonyms") /\ call.nlp) =>
           LET doc == nlp_doc(call.text)
           IN /\ Len(ret.tokens) = Len(doc)
              /\ \A i \in DOMAIN doc :
                     Contains(doc[i].text, Marker) => ret.tokens[i] = doc[i].text
              /\ ret.used <= 2 * Cardinality({i \in DOMAIN doc : Eligible(doc[i])})
    /\ Returned("minimal_humanize_line") =>
           PlaceholderKeys(ret.text, 1) = PlaceholderKeys(call.text, 1)

\* a line with a placeholder after a word that is replaced, p_syn = 1: the
\* tokenizers have put blanks into the placeholder
C9_Witness ==
    /\ Returned("minimal_humanize_line") /\ call.p_syn = RandMax
    /\ call.text = <<"b", "i", "g">> \o Placeholder(1)
    /\ Contains(ret.text, <<"l", "a", "r", "g", "e", " ", "[", " ", "[", " ", "R", "E", "F", "_", "1", " ", "]", " ", "]">>)

\* the characters of a word
TokenCharSet == LetterSet \cup DigitSet \cup {"_"}

\* the whole-word pass with the table's entries matched as whole tokens
\* only: an entry that has a character of a word before or after it is
\* left alone
RECURSIVE WholeTokenPassFrom(_, _)
WholeTokenPassFrom(s, p) ==
    IF p > Len(s) THEN <<>>
    ELSE LET m == WholeMatch(s, p)
             we == m.w + (IF m.k = 0 THEN 0 ELSE Len(WHOLE_CONTRACTIONS[m.k][1]))
             whole == /\ m.k # 0
                      /\ (m.w = 1 \/ s[m.w - 1] \notin TokenCharSet)
                      /\ (we > Len(s) \/ s[we] \notin TokenCharSet)
         IN IF whole THEN replace_whole_with_quotes(s, m) \o WholeTokenPassFrom(s, m.e)
            ELSE <<s[p]>> \o WholeTokenPassFrom(s, p + 1)

\* C10: the whole-word pass of expand_contractions rewrites an entry of the
\* table only where it is a whole token, with the case of its first letter
\* kept, and leaves every other character alone; an entry that is the tail
\* of a longer word is not rewritten.
C10_WholeTokensOnly ==
    Returned("expand_contractions") => ret.whole = WholeTokenPassFrom(call.text, 1)

\* a token of the suffix pass with the first suffix of the table it ends
\* with, if any, replaced by the expansion, the rest of the token as it was
SuffixExpanded(t) ==
    LET ks == {k \in DOMAIN SUFFIX_CONTRACTIONS : EndsWith(Lower(t), SUFFIX_CONTRACTIONS[k][1])}
        k == Min(ks)
    IN IF ks = {} THEN t
       ELSE SubSeq(t, 1, Len(t) - Len(SUFFIX_CONTRACTIONS[k][1])) \o SUFFIX_CONTRACTIONS[k][2]

\* C11: in the suffix pass of expand_contractions a token that ends in a
\* suffix of the table has that one suffix, the first of the table that
\* matches, replaced by its expansion while the base of the token keeps its
\* capitalization, and a token that ends in no suffix is emitted unchanged.
C11_SuffixKeepsBase ==
    Returned("expand_contractions") =>
        LET tokens == word_tokenize(ret.whole)
        IN ret.text = Join([i \in DOMAIN tokens |-> SuffixExpanded(tokens[i])], <<" ">>)

\* C12: add_academic_transition compares one draw with p_trans and returns
\* the sentence unchanged when the draw is not below p_trans, and one
\* connective of the list of 12, one blank and the unmodified sentence when
\* it is below; it returns nothing else, and with p_trans = 1 every
\* sentence gets a connective.
C12_TransitionOrUnchanged ==
    Returned("add_academic_transition") =>
        LET below == call.rnd[1] < call.p_trans
            withConnective == {ACADEMIC_TRANSITIONS[k] \o <<" ">> \o call.text :
                                  k \in DOMAIN ACADEMIC_TRANSITIONS}
        IN /\ Len(ACADEMIC_TRANSITIONS) = 12
           /\ below => ret.text \in withConnective
           /\ ~below => ret.text = call.text
           /\ call.p_trans = RandMax => ret.text \in withConnective

\* p_trans = 1 and the last connective of the list chosen
C12_Witness ==
    /\ Returned("add_academic_transition") /\ call.p_trans = RandMax
    /\ call.text = <<"b", "i", "g">>
    /\ ret.text = ACADEMIC_TRANSITIONS[12] \o <<" ", "b", "i", "g">>

\* C13: a request whose input text is empty or holds only whitespace ends
\* in the warning; it runs no stage (count, extract, rewrite, restore,
\* cleanup) and produces no result text.
C13_BlankInputWarns ==
    (\A i \in DOMAIN input_text : input_text[i] \in {" ", NL, TAB}) =>
        /\ pc \in {"idle", "done"}
        /\ pc = "done" => outcome = "warning"
        /\ outcome # "result"
        /\ stages = <<>>
        /\ orig_wc = 0 /\ orig_sc = 0 /\ new_wc = 0 /\ new_sc = 0
        /\ no_refs_text = <<>> /\ placeholders = EmptyMap
        /\ partially_rewritten = <<>> /\ final_text = <<>>

\* a request with a blank and a line break for input has ended
C13_Witness ==
    /\ input_text = <<" ", NL>>
    /\ pc = "done" /\ outcome = "warning"

\* C14: with the spaCy model or the WordNet corpus absent, replace_synonyms
\* returns every token of its sentence unchanged, and the request still
\* runs to its end and produces a result.
C14_AbsentCollaboratorNoOp ==
    ((~nlp \/ ~wordnet_found)
         /\ \E i \in DOMAIN input_text : input_text[i] \notin {" ", NL, TAB}) =>
        /\ outcome # "error"
        /\ pc = "done" => outcome = "result"
        /\ pc = "transition" =>
               line = PlainSentence(sents[Len(out_sents) + 1], nlp)

\* C15: the transforms are deterministic given the seed: a second run of
\* replace_synonyms on the same sentence with the same p_syn and the same
\* generator outputs gives the text of the first, whatever order the second
\* interpreter's str hashes give list(synonyms).
C15_SameDrawsSameText ==
    Returned("replace_synonyms") =>
        \A h2 \in {0, 1} :
            replace_synonyms(call.text, call.p_syn, call.nlp, call.rnd, h2).text = ret.text

\* the number of times a stage has run in the request
StageCount(s) == Cardinality({i \in DOMAIN stages : stages[i] = s})

\* the pairs of stages that may run one right after the other
StageFollows ==
    { <<"count", "extract">>,
      <<"extract", "expand">>, <<"extract", "rewrite">>,
      <<"expand", "synonyms">>, <<"synonyms", "transition">>,
      <<"transition", "expand">>, <<"transition", "rewrite">>,
      <<"rewrite", "restore">>, <<"restore", "cleanup">>,
      <<"cleanup", "count">> }

\* the number of sentences of the non-blank lines among lns
RECURSIVE SentenceTotal(_)
SentenceTotal(lns) ==
    IF lns = <<>> THEN 0
    ELSE (IF IsBlank(Head(lns)) THEN 0 ELSE Len(sent_tokenize(Head(lns))))
         + SentenceTotal(Tail(lns))

\* C16: the stages of a request run in a fixed order: the counts, then
\* extract_citations, then for each sentence of each non-blank line
\* expand_contractions, replace_synonyms and add_academic_transition in this
\* order, then the rejoining of the lines, then restore_citations, then the
\* cleanup and the new counts. extract_citations, restore_citations and the
\* cleanup run at most once, and exactly once in a request that shows a
\* result; when restore_citations is about to run every sentence of every
\* non-blank line has gone through the three transforms, every line has been
\* rewritten and rejoined, and the placeholder map is the one extract_citations
\* built.
C16_FixedStageOrder ==
    /\ stages # <<>> => stages[1] = "count"
    /\ \A i \in 1..(Len(stages) - 1) : <<stages[i], stages[i + 1]>> \in StageFollows
    /\ StageCount("extract") <= 1
    /\ StageCount("restore") <= 1
    /\ StageCount("cleanup") <= 1
    /\ pc = "restore" =>
           /\ StageCount("restore") = 0
           /\ <<no_refs_text, placeholders>> = extract_citations(input_text)
           /\ Len(out_lines) = Len(SplitLines(no_refs_text))
           /\ StageCount("transition") = SentenceTotal(SplitLines(no_refs_text))
           /\ partially_rewritten = Join(out_lines, <<NL>>)
    /\ outcome = "result" =>
           /\ StageCount("extract") = 1
           /\ StageCount("restore") = 1
           /\ StageCount("cleanup") = 1

\* a request over two lines, with two sentences rewritten and a citation
\* protected, has shown its result
C16_Witness ==
    /\ outcome = "result"
    /\ Len(lines) >= 2
    /\ StageCount("transition") >= 2
    /\ DOMAIN placeholders # {}

\* C17: citation protection is an exact round trip: for every text, a text
\* that already holds a placeholder-shaped substring included,
\* restore_citations applied to the text and the map that extract_citations
\* returned gives back the original text, character for character.
C17_ExactRoundTrip ==
    Returned("extract_citations") =>
        restore_citations(ret.text, ret.map) = call.text

====
